---------------------------- MODULE Spec2Model ----------------------------
(***************************************************************************)
(* Model of ping_proxies.py: the probe of one listener                     *)
(* (test_single_proxy_attempt), the retry loop around it (test_proxy) and  *)
(* the thread pool, collection loop and aggregation of main.               *)
(*                                                                         *)
(* Texts of the source are written in ASCII:                               *)
(*   "成功" Success, "失败" Failed, "超时" Timeout, "代理错误" ProxyError,  *)
(*   "失败: <type>" "Failed: <type>", "错误: <type>" "Error: <type>",       *)
(*   "未知" Unknown, "-" Dash.                                             *)
(* A status text is a sequence of tokens; the retry suffix the source      *)
(* concatenates, " (重试 N 次)" or " (已重试 N 次)", is the three tokens    *)
(* " (", "retried" or "already retried", and the digits of N.              *)
(***************************************************************************)
EXTENDS Integers, Sequences, FiniteSets, TLC

\* ------------------------------------------------------------ bounds
MaxTargets == 2
MaxThreads == 2
MaxNum == 1

\* ------------------------------------------------- program constants
MAX_RETRIES == 3
\* time.sleep(1) of line 147, in seconds.
RETRY_DELAY == 1
BasePort == 42000

\* Wall-clock latencies a primary request can measure, in 1/100 ms.
ElapsedValues == {3520, 12000}

\* The public addresses the "what is my IP" service can report.
IpValues == {"203.0.113.7"}

VARIABLES
    hasListeners,   \* 'listeners' in config
    listeners,      \* config['listeners']
    threads,        \* args.threads
    num,            \* args.num
    pc,             \* position of main
    proxies,        \* the list main tests
    task,           \* per submitted future: its state and what test_proxy did
    yielded,        \* futures as_completed has handed to main's loop
    results,        \* main's results list
    stderr,         \* futures whose fault main printed to stderr
    df,             \* the sorted table main builds
    status_counts,  \* main's tally of the base statuses
    timed,          \* whether the run is followed on the clock
    clock,          \* earliest time (s) at which the run can be where it is,
                    \* every sleep taking RETRY_DELAY and all else no time
    probe           \* one call of test_proxy on its own: arguments and return

vars == <<hasListeners, listeners, threads, num, pc, proxies, task, yielded,
          results, stderr, df, status_counts, timed, clock, probe>>

\* ------------------------------------------------------------ values
Null == [none |-> TRUE]

\* A listener of the configuration: a mapping that may lack keys.
Listener(i, complete) ==
    IF complete
    THEN [name |-> <<"mixed", i - 1>>, port |-> BasePort + i - 1,
          proxy |-> <<"node", i - 1>>]
    ELSE [name |-> <<"mixed", i - 1>>, proxy |-> <<"node", i - 1>>]

\* The exceptions requests.get and the parsing of its response can raise,
\* each with the classes it is an instance of.
Exceptions == {"ReadTimeout", "ConnectTimeout", "ProxyError",
               "ConnectionError", "KeyError"}

IsA(e) ==
    CASE e = "ReadTimeout"     -> {"Timeout", "RequestException"}
      [] e = "ConnectTimeout"  -> {"Timeout", "ConnectionError", "RequestException"}
      [] e = "ProxyError"      -> {"ProxyError", "ConnectionError", "RequestException"}
      [] e = "ConnectionError" -> {"ConnectionError", "RequestException"}
      [] OTHER                 -> {}

\* What one request does: it answers with a status code, or raises.
Responses == {"200", "non200"} \cup Exceptions

\* The location request can also answer 200 with a body that lacks the
\* country, city and org keys.
GeoResponses == Responses \cup {"200 no fields"}

\* What the network does during one call of test_single_proxy_attempt: the
\* request through the listener, and the location request when it is made.
NetBehaviours ==
    [primary : Responses \ {"200"}, geo : {"unused"}, ip : {"Dash"}, elapsed : {0}]
    \cup [primary : {"200"}, geo : GeoResponses, ip : IpValues,
          elapsed : ElapsedValues]

\* ------------------------------------------------------- status text
Annotate(status, label, n) == status \o <<" (", label, ToString(n)>>

\* status.split(" (")[0]
RECURSIVE BaseStatus(_)
BaseStatus(status) ==
    IF status = <<>> \/ Head(status) = " ("
    THEN <<>>
    ELSE <<Head(status)>> \o BaseStatus(Tail(status))

\* The number the retry suffix of a status states; 0 without a suffix.
RetryCount(status) ==
    IF Len(BaseStatus(status)) < Len(status)
    THEN CHOOSE n \in 0..9 : ToString(n) = status[Len(status)]
    ELSE 0

\* f"{elapsed:.2f}" of a latency given in 1/100 ms.
Format2f(x) ==
    ToString(x \div 100) \o "." \o ToString((x % 100) \div 10) \o ToString(x % 10)

\* --------------------------------------------- test_single_proxy_attempt
\* The result dictionary as first built (lines 55-66).
InitialResultZeroLatency(proxy_info) ==
    [name     |-> proxy_info.name,
     proxy    |-> proxy_info.proxy,
     port     |-> proxy_info.port,
     url      |-> <<"socks5://127.0.0.1:", proxy_info.port>>,
     status   |-> <<"Failed">>,
     ip       |-> "Dash",
     country  |-> "Dash",
     city     |-> "Dash",
     org      |-> "Dash",
     latency  |-> "0.00"]

InitialResult(proxy_info) ==
    [name     |-> proxy_info.name,
     proxy    |-> proxy_info.proxy,
     port     |-> proxy_info.port,
     url      |-> <<"socks5://127.0.0.1:", proxy_info.port>>,
     status   |-> <<"Failed">>,
     ip       |-> "Dash",
     country  |-> "Dash",
     city     |-> "Dash",
     org      |-> "Dash",
     latency  |-> "Dash"]

\* The except clauses, in their order (lines 113-124).
ClassifyRequestExceptionFirst(e) ==
    IF "RequestException" \in IsA(e) THEN <<"Failed: " \o e>>
    ELSE IF "Timeout" \in IsA(e) THEN <<"Timeout">>
    ELSE IF "ProxyError" \in IsA(e) THEN <<"ProxyError">>
    ELSE <<"Error: " \o e>>

Classify(e) ==
    IF "Timeout" \in IsA(e) THEN <<"Timeout">>
    ELSE IF "ProxyError" \in IsA(e) THEN <<"ProxyError">>
    ELSE IF "RequestException" \in IsA(e) THEN <<"Failed: " \o e>>
    ELSE <<"Error: " \o e>>

\* Lines 93-101: the location fields of the secondary response.
GeoFields(geo) ==
    IF geo = "200"
    THEN [country |-> "US", city |-> "Ashburn", org |-> "AS64500"]
    ELSE IF geo = "200 no fields"
    THEN [country |-> "Dash", city |-> "Dash", org |-> "Dash"]
    ELSE [country |-> "Unknown", city |-> "Unknown", org |-> "Unknown"]

\* One attempt under the network behaviour net. Returns <<result, success>>.
test_single_proxy_attempt(proxy_info, net) ==
    LET result == InitialResult(proxy_info) IN
    IF net.primary \in Exceptions
    THEN <<[result EXCEPT !.status = Classify(net.primary)], FALSE>>
    ELSE IF net.primary # "200"
    THEN <<result, FALSE>>
    ELSE IF net.geo \in Exceptions
    THEN <<[result EXCEPT !.status = Classify(net.geo)], FALSE>>
    ELSE <<[result EXCEPT !.status = <<"Success">>,
                          !.ip = net.ip,
                          !.country = GeoFields(net.geo).country,
                          !.city = GeoFields(net.geo).city,
                          !.org = GeoFields(net.geo).org,
                          !.latency = Format2f(net.elapsed)], TRUE>>

\* ------------------------------------------------------------ test_proxy
\* The network during one call of test_proxy: its behaviour at the first,
\* second, ... call of test_single_proxy_attempt; it goes on as at the last.
NetScripts == [1..MAX_RETRIES -> NetBehaviours]

NetAt(script, k) == script[IF k <= Len(script) THEN k ELSE Len(script)]

WellFormed(proxy_info) == {"name", "port", "proxy"} \subseteq DOMAIN proxy_info

\* The loop test of line 144.
MayRetryOffByOne(retry_count) == retry_count <= MAX_RETRIES

MayRetry(retry_count) == retry_count < MAX_RETRIES

\* Lines 153-155: what a successful retry returns.
RetrySuccessFirstResult(result, retry_result, retry_count) ==
    [result EXCEPT !.status = Annotate(@, "retried", retry_count)]

RetrySuccessValue(result, retry_result, retry_count) ==
    [retry_result EXCEPT !.status = Annotate(@, "retried", retry_count)]

\* Lines 157-159: what the function returns once the loop is left.
ExhaustedValue(result, retry_result) ==
    [result EXCEPT !.status = Annotate(@, "already retried", MAX_RETRIES)]

\* Lines 145-150: one pass of the loop sleeps, then calls
\* test_single_proxy_attempt. events lists what the call has done so far.
PassEventsSleepAfter(events) == events \o <<"attempt", "sleep">>

PassEvents(events) == events \o <<"sleep", "attempt">>

\* The number of time.sleep(1) among the events.
RECURSIVE Sleeps(_)
Sleeps(events) ==
    IF events = <<>> THEN 0
    ELSE (IF Head(events) = "sleep" THEN 1 ELSE 0) + Sleeps(Tail(events))

\* What a call of test_proxy did: raised tells whether an exception left it,
\* value is what it returned, trace the returns of its calls of
\* test_single_proxy_attempt in order, events its attempts and sleeps in
\* order, delays the number of time.sleep(1).
Returned(value, trace, events) ==
    [raised |-> FALSE, value |-> value, trace |-> trace, events |-> events,
     delays |-> Sleeps(events)]

\* Lines 144-159: the loop, entered with retry_count after trace's attempts.
RECURSIVE RetryLoop(_, _, _, _, _, _)
RetryLoop(proxy_info, script, result, retry_count, trace, events) ==
    IF MayRetry(retry_count)
    THEN LET n == retry_count + 1
             r == test_single_proxy_attempt(proxy_info, NetAt(script, Len(trace) + 1))
         IN IF r[2]
            THEN Returned(RetrySuccessValue(result, r[1], n),
                          Append(trace, r), PassEvents(events))
            ELSE RetryLoop(proxy_info, script, result, n,
                           Append(trace, r), PassEvents(events))
    ELSE Returned(ExhaustedValue(result, trace[Len(trace)][1]), trace, events)

\* Lines 128-159. On a listener that lacks a key the first call of
\* test_single_proxy_attempt raises KeyError (lines 50-52), which leaves
\* test_proxy.
test_proxy(proxy_info, script) ==
    IF ~WellFormed(proxy_info)
    THEN [raised |-> TRUE, value |-> Null, trace |-> <<>>,
          events |-> <<"attempt">>, delays |-> 0]
    ELSE LET r == test_single_proxy_attempt(proxy_info, NetAt(script, 1)) IN
         IF r[2]
         THEN Returned(r[1], <<r>>, <<"attempt">>)
         ELSE RetryLoop(proxy_info, script, r[1], 1, <<r>>, <<"attempt">>)

\* What main sees of a finished call: the trace is local to the call.
Outcome(ret) ==
    [raised |-> ret.raised, value |-> ret.value,
     calls |-> IF ret.raised THEN 1 ELSE Len(ret.trace), delays |-> ret.delays]

AllListeners == {Listener(i, c) : i \in 1..MaxTargets, c \in BOOLEAN}

\* Every way a call of test_proxy on a listener can end, over all the
\* network can do.
ProbeOutcomes ==
    [l \in AllListeners |-> {Outcome(test_proxy(l, script)) : script \in NetScripts}]

\* ------------------------------------------------------------------ main
\* A future of the pool.
NewTask == [state |-> "pending", start |-> 0, outcome |-> Null]

Tasks == DOMAIN task

Running == {i \in Tasks : task[i].state = "running"}

\* Lines 180-182.
Slice(ls, n) == IF n > 0 /\ n < Len(ls) THEN SubSeq(ls, 1, n) ELSE ls

\* ThreadPoolExecutor(max_workers): a queued call starts only on a free worker.
WorkerFreeUnbounded(running) == TRUE

WorkerFree(running) == Cardinality(running) < threads

\* Lines 191-199: the loop over as_completed(futures) ends when every future
\* was yielded, and the with block is left when no call is queued or running.
PoolDoneAtFirstResult == yielded # {}

\* as_completed yields a future that is done: its call returned or raised.
SettledOnlyReturned(i) == task[i].state = "finished"

Settled(i) == task[i].state \in {"finished", "raised"}

\* as_completed yields each future once.
UnyieldedAlways(i) == TRUE

Unyielded(i) == i \notin yielded

\* Line 197: results.append(result).
Overwritten(rs, result) == <<result>>

Appended(rs, result) == Append(rs, result)

\* Line 202: if not results.
NoResultsCheckMissing(rs) == FALSE

NoResultsCheck(rs) == rs = <<>>

\* The earliest time a call started at start can end after delays sleeps.
FinishTimeNoSleep(start, delays) == start

FinishTime(start, delays) == start + delays * RETRY_DELAY

Max(a, b) == IF a >= b THEN a ELSE b

PoolDone ==
    /\ \A i \in Tasks : i \in yielded
    /\ \A i \in Tasks : task[i].state \notin {"pending", "running"}

\* Insertion of one row into a table sorted by port (sort_values, line 216).
RECURSIVE InsertByPort(_, _)
InsertByPort(rows, r) ==
    IF rows = <<>> THEN <<r>>
    ELSE IF r.port < Head(rows).port THEN <<r>> \o rows
    ELSE <<Head(rows)>> \o InsertByPort(Tail(rows), r)

RECURSIVE SortByPort(_)
SortByPort(rows) ==
    IF rows = <<>> THEN <<>>
    ELSE InsertByPort(SortByPort(SubSeq(rows, 1, Len(rows) - 1)), rows[Len(rows)])

\* Lines 207-213 and 216 without the renumbering of line 219: the rank column
\* as assigned before the sort.
RECURSIVE InsertRanked(_, _)
InsertRanked(rows, r) ==
    IF rows = <<>> THEN <<r>>
    ELSE IF r.row.port < Head(rows).row.port THEN <<r>> \o rows
    ELSE <<Head(rows)>> \o InsertRanked(Tail(rows), r)

RECURSIVE BuildTableRankedBeforeSort(_)
BuildTableRankedBeforeSort(rows) ==
    IF rows = <<>> THEN <<>>
    ELSE InsertRanked(BuildTableRankedBeforeSort(SubSeq(rows, 1, Len(rows) - 1)),
                      [rank |-> Len(rows), row |-> rows[Len(rows)]])

\* Lines 207-227: the table, sorted, with the rank column.
BuildTable(rows) ==
    LET sorted == SortByPort(rows) IN
    [k \in 1..Len(sorted) |-> [rank |-> k, row |-> sorted[k]]]

\* Lines 232-236: the number of rows per base status.
StatusCounts(table) ==
    LET bases == {BaseStatus(table[k].row.status) : k \in 1..Len(table)} IN
    [b \in bases |->
        Cardinality({k \in 1..Len(table) : BaseStatus(table[k].row.status) = b})]

\* Line 238: status_counts.get('成功', 0).
SuccessCount ==
    IF <<"Success">> \in DOMAIN status_counts
    THEN status_counts[<<"Success">>]
    ELSE 0

\* Line 241: the total the summary prints.
Total == Len(proxies)

\* Line 242: success_count / len(proxies) * 100 as printed with two decimals,
\* in 1/100 percent.
SuccessPercent == (2 * 10000 * SuccessCount + Total) \div (2 * Total)

\* ------------------------------------------------------------------ Init
ListenerLists ==
    UNION {[1..n -> BOOLEAN] : n \in 0..MaxTargets}

NoProbe == [called |-> FALSE, proxy_info |-> Null, script |-> <<>>, ret |-> Null]

InitRun(followed) ==
    /\ hasListeners \in BOOLEAN
    /\ \E wf \in ListenerLists :
          listeners = [i \in DOMAIN wf |-> Listener(i, wf[i])]
    /\ hasListeners = FALSE => listeners = <<>>
    /\ threads \in 0..MaxThreads
    /\ num \in 0..MaxNum
    /\ pc = "start"
    /\ proxies = <<>>
    /\ task = <<>>
    /\ yielded = {}
    /\ results = <<>>
    /\ stderr = {}
    /\ df = <<>>
    /\ status_counts = <<>>
    /\ timed = followed
    /\ clock = 0
    /\ probe = NoProbe

Init == InitRun(FALSE)

\* The same runs, followed on the clock.
InitTimed == InitRun(TRUE)

\* --------------------------------------------------------------- actions
\* Lines 174-176: no listeners section.
NoListeners ==
    /\ pc = "start"
    /\ ~hasListeners
    /\ pc' = "exit1"
    /\ UNCHANGED <<hasListeners, listeners, threads, num, proxies, task,
                   yielded, results, stderr, df, status_counts, timed, clock,
                   probe>>

\* Line 191 with max_workers <= 0: the constructor raises ValueError.
PoolRejected ==
    /\ pc = "start"
    /\ hasListeners
    /\ threads <= 0
    /\ proxies' = Slice(listeners, num)
    /\ pc' = "crashed"
    /\ UNCHANGED <<hasListeners, listeners, threads, num, task,
                   yielded, results, stderr, df, status_counts, timed, clock,
                   probe>>

\* Lines 178-193: the list to test, and one future per entry.
Submit ==
    /\ pc = "start"
    /\ hasListeners
    /\ threads > 0
    /\ proxies' = Slice(listeners, num)
    /\ task' = [i \in 1..Len(proxies') |-> NewTask]
    /\ pc' = "collect"
    /\ UNCHANGED <<hasListeners, listeners, threads, num, yielded, results,
                   stderr, df, status_counts, timed, clock, probe>>

\* A worker thread takes the oldest queued call.
Start(i) ==
    /\ task[i].state = "pending"
    /\ \A j \in 1..(i - 1) : task[j].state # "pending"
    /\ WorkerFree(Running)
    /\ task' = [task EXCEPT ![i].state = "running",
                            ![i].start = IF timed THEN clock ELSE 0]
    /\ UNCHANGED <<hasListeners, listeners, threads, num, pc, proxies,
                   yielded, results, stderr, df, status_counts, timed, clock,
                   probe>>

\* The call of test_proxy on a worker thread ends: it returns or raises.
\* The call shares nothing with the other threads, so it is one step.
Finish(i) ==
    /\ task[i].state = "running"
    /\ \E o \in ProbeOutcomes[proxies[i]] :
          /\ task' = [task EXCEPT
                         ![i].state = IF o.raised THEN "raised" ELSE "finished",
                         ![i].start = 0,
                         ![i].outcome = o]
          /\ clock' = IF timed
                       THEN Max(clock, FinishTime(task[i].start, o.delays))
                       ELSE clock
    /\ UNCHANGED <<hasListeners, listeners, threads, num, pc, proxies,
                   yielded, results, stderr, df, status_counts, timed, probe>>

\* Lines 194-199: as_completed yields a settled future; main takes its result.
Collect(i) ==
    /\ pc = "collect"
    /\ Settled(i)
    /\ Unyielded(i)
    /\ yielded' = yielded \cup {i}
    /\ IF task[i].state = "finished"
       THEN /\ results' = Appended(results, task[i].outcome.value)
            /\ stderr' = stderr
       ELSE /\ results' = results
            /\ stderr' = stderr \cup {i}
    /\ UNCHANGED <<hasListeners, listeners, threads, num, pc, proxies, task,
                   df, status_counts, timed, clock, probe>>

\* Lines 201-204.
NoResults ==
    /\ pc = "collect"
    /\ PoolDone
    /\ NoResultsCheck(results)
    /\ pc' = "exit1"
    /\ UNCHANGED <<hasListeners, listeners, threads, num, proxies, task,
                   yielded, results, stderr, df, status_counts, timed, clock,
                   probe>>

\* Lines 206-257.
Aggregate ==
    /\ pc = "collect"
    /\ PoolDone
    /\ ~NoResultsCheck(results)
    /\ df' = BuildTable(results)
    /\ status_counts' = StatusCounts(df')
    /\ pc' = "done"
    /\ UNCHANGED <<hasListeners, listeners, threads, num, proxies, task,
                   yielded, results, stderr, timed, clock, probe>>

Next ==
    \/ NoListeners
    \/ PoolRejected
    \/ Submit
    \/ \E i \in Tasks : Start(i)
    \/ \E i \in Tasks : Finish(i)
    \/ \E i \in Tasks : Collect(i)
    \/ NoResults
    \/ Aggregate

Spec == Init /\ [][Next]_vars

SpecTimed == InitTimed /\ [][Next]_vars

\* ------------------------------------------- test_proxy called on its own
InitProbe ==
    /\ hasListeners = TRUE
    /\ listeners = <<>>
    /\ threads = 1
    /\ num = 0
    /\ pc = "probe"
    /\ proxies = <<>>
    /\ task = <<>>
    /\ yielded = {}
    /\ results = <<>>
    /\ stderr = {}
    /\ df = <<>>
    /\ status_counts = <<>>
    /\ timed = FALSE
    /\ clock = 0
    /\ \E l \in {Listener(1, TRUE), Listener(1, FALSE)}, script \in NetScripts :
          probe = [called |-> FALSE, proxy_info |-> l, script |-> script, ret |-> Null]

CallTestProxy ==
    /\ pc = "probe"
    /\ ~probe.called
    /\ probe' = [probe EXCEPT !.called = TRUE,
                              !.ret = test_proxy(probe.proxy_info, probe.script)]
    /\ UNCHANGED <<hasListeners, listeners, threads, num, pc, proxies, task,
                   yielded, results, stderr, df, status_counts, timed, clock>>

NextProbe == CallTestProxy

SpecProbe == InitProbe /\ [][NextProbe]_vars

\* ================================================================ claims
\* Shorthands for the call of test_proxy examined on its own.
ProbeReturned == probe.called /\ ~probe.ret.raised

Attempts == probe.ret.trace

AllAttemptsFailed == \A k \in 1..Len(Attempts) : ~Attempts[k][2]

\* The returned record with the retry suffix taken off its status.
Unannotated(value) == [value EXCEPT !.status = BaseStatus(@)]

\* C1: after a completed run the table holds one record per tested target,
\* no target lost and none twice, also when a call of test_proxy raised.
C1_OneRecordPerTarget ==
    pc = "done" =>
        /\ Len(df) = Len(proxies)
        /\ \A i \in 1..Len(proxies) :
              Cardinality({k \in 1..Len(df) : df[k].row.name = proxies[i].name}) = 1

\* C2: a future whose call raised and was taken by main's loop is reported
\* and has an "Error: ..." (UnknownError) record in the results.
C2_FaultBecomesUnknownErrorRecord ==
    \A i \in yielded :
        task[i].state = "raised" =>
            /\ i \in stderr
            /\ \E k \in 1..Len(results) :
                  /\ results[k].name = proxies[i].name
                  /\ BaseStatus(results[k].status)
                        \in {<<"Error: " \o e>> : e \in Exceptions}

\* C3: when all MAX_RETRIES attempts fail, the status test_proxy returns is
\* the classification of the last attempt.
C3_ExhaustedReturnsLastClassification ==
    (ProbeReturned /\ AllAttemptsFailed /\ Len(Attempts) = MAX_RETRIES) =>
        BaseStatus(probe.ret.value.status) = Attempts[MAX_RETRIES][1].status

\* C4: a returned success states as its retry count the zero-based index of
\* the successful attempt: 0, 1 or 2.
C4_SuccessRetryCountIsAttemptIndex ==
    (ProbeReturned /\ Attempts[Len(Attempts)][2]) =>
        RetryCount(probe.ret.value.status) = Len(Attempts) - 1

\* C5: a target whose three attempts all time out yields one record with
\* status Timeout and retry count MAX_RETRIES - 1 = 2.
C5_AllTimeoutsRetryCountTwo ==
    (/\ ProbeReturned
     /\ Len(Attempts) = MAX_RETRIES
     /\ \A k \in 1..MAX_RETRIES : Attempts[k][1].status = <<"Timeout">>) =>
        /\ BaseStatus(probe.ret.value.status) = <<"Timeout">>
        /\ RetryCount(probe.ret.value.status) = MAX_RETRIES - 1

\* C6: test_proxy calls test_single_proxy_attempt at most MAX_RETRIES = 3
\* times, and exactly 3 times when every attempt fails.
C6_AtMostMaxAttempts ==
    ProbeReturned =>
        /\ Len(Attempts) <= MAX_RETRIES
        /\ AllAttemptsFailed => Len(Attempts) = MAX_RETRIES

C6_Witness ==
    /\ ProbeReturned
    /\ AllAttemptsFailed
    /\ Len(Attempts) = MAX_RETRIES
    /\ Attempts[1][1].status # Attempts[MAX_RETRIES][1].status

\* C7: a successful attempt is the last one of the call, no delay follows it,
\* and the record returned is the one that attempt produced.
C7_SuccessEndsTheCall ==
    ProbeReturned =>
        \A k \in 1..Len(Attempts) :
            Attempts[k][2] =>
                /\ k = Len(Attempts)
                /\ probe.ret.delays = k - 1
                /\ Unannotated(probe.ret.value) = Attempts[k][1]

\* Success at the second attempt, with a network that would have answered a
\* third attempt differently.
C7_Witness ==
    /\ ProbeReturned
    /\ Len(Attempts) = 2
    /\ Attempts[2][2]
    /\ probe.script[3] # probe.script[2]
    /\ probe.script[3].primary = "200"

\* C8: an attempt whose primary request succeeds and whose location request
\* fails in any way is a success with IP and latency set and the location
\* fields "Unknown".
C8_GeoFailureStillSuccess ==
    ProbeReturned =>
        \A k \in 1..Len(Attempts) :
            (/\ probe.script[k].primary = "200"
             /\ probe.script[k].geo \in Exceptions \cup {"non200"}) =>
                /\ Attempts[k][2]
                /\ Attempts[k][1].status = <<"Success">>
                /\ Attempts[k][1].ip = probe.script[k].ip
                /\ Attempts[k][1].latency = Format2f(probe.script[k].elapsed)
                /\ Attempts[k][1].country = "Unknown"
                /\ Attempts[k][1].city = "Unknown"
                /\ Attempts[k][1].org = "Unknown"

\* C9: with threads >= 1, at most threads calls of test_proxy run at once.
C9_AtMostWRunning ==
    threads >= 1 => Cardinality(Running) <= threads

\* Every worker busy while a call is still queued.
C9_Witness ==
    /\ threads >= 1
    /\ Cardinality(Running) = threads
    /\ \E i \in Tasks : task[i].state = "pending"

\* C10: when the table is built, every submitted future has settled (it
\* returned or raised) and was taken by main's loop.
C10_AggregationAfterAllSettled ==
    pc = "done" =>
        \A i \in Tasks : task[i].state \in {"finished", "raised"} /\ i \in yielded

\* A completed run of two targets, one returned and one raised.
C10_Witness ==
    /\ pc = "done"
    /\ Cardinality(Tasks) >= 2
    /\ \E i \in Tasks : task[i].state = "raised"
    /\ \E i \in Tasks : task[i].state = "finished"

\* C13: with threads >= 1 and every attempt ending, a run that has submitted
\* its calls ends, and then every call has returned or raised: no target
\* that exhausted its retries or raised keeps another from its outcome.
\* Stated as what makes every run end once each step that can be taken is
\* taken: until the run has ended a step can be taken (CanStep, the guards of
\* Start, Finish, Collect and of NoResults or Aggregate), every step lowers
\* StepsLeft, and a run that has ended has all its calls settled.
CanStep ==
    \/ WorkerFree(Running) /\ \E i \in Tasks : task[i].state = "pending"
    \/ Running # {}
    \/ \E i \in Tasks : Settled(i) /\ Unyielded(i)
    \/ PoolDone

StepsLeft ==
    IF pc = "start" THEN 3 * Len(listeners) + 2
    ELSE IF pc = "collect"
    THEN 1 + 3 * Cardinality({i \in Tasks : task[i].state = "pending"})
           + 2 * Cardinality(Running)
           + Cardinality({i \in Tasks : /\ task[i].state \in {"finished", "raised"}
                                        /\ i \notin yielded})
    ELSE 0

C13_RunCompletes ==
    /\ [](pc = "collect" => CanStep)
    /\ [](pc \in {"done", "exit1"} =>
            \A i \in Tasks : task[i].state \in {"finished", "raised"})
    /\ [][StepsLeft' < StepsLeft]_vars

\* A completed run in which one call raised and another exhausted its retries.
C13_Witness ==
    /\ pc = "done"
    /\ \E i \in Tasks : task[i].state = "raised"
    /\ \E i \in Tasks :
          /\ task[i].state = "finished"
          /\ task[i].outcome.calls = MAX_RETRIES
          /\ BaseStatus(task[i].outcome.value.status) # <<"Success">>

RECURSIVE TallySum(_)
TallySum(counts) ==
    IF DOMAIN counts = {} THEN 0
    ELSE LET b == CHOOSE c \in DOMAIN counts : TRUE IN
         counts[b] + TallySum([c \in DOMAIN counts \ {b} |-> counts[c]])

\* C12: after aggregation the counts per base status sum to the number of
\* targets tested, the total the success percentage is taken of.
C12_TallySumsToTotal ==
    pc = "done" =>
        /\ TallySum(status_counts) = Total
        /\ SuccessPercent * Total <= 10000 * SuccessCount + Total
        /\ SuccessPercent * Total >= 10000 * SuccessCount - Total

\* C14: with no listeners section or an empty list of listeners the run never
\* builds a table or a tally, and when it has stopped it has stopped with a
\* non-zero exit status (sys.exit(1), or the pool's uncaught ValueError).
C14_NoTargetsHardFailure ==
    (~hasListeners \/ listeners = <<>>) =>
        /\ pc # "done"
        /\ df = <<>>
        /\ status_counts = <<>>
        /\ ~ENABLED Next => pc \in {"exit1", "crashed"}

\* The empty list went through the pool and main left at line 204.
C14_Witness ==
    /\ hasListeners
    /\ listeners = <<>>
    /\ proxies = <<>>
    /\ threads >= 1
    /\ pc = "exit1"

\* The records a call of test_proxy has seen: what each attempt returned and
\* what the call returned.
ProbeRecords ==
    {Attempts[k][1] : k \in 1..Len(Attempts)} \cup {probe.ret.value}

\* C15: in every record an attempt or test_proxy returns, the latency is a
\* number exactly when the base status is success; an unsuccessful record
\* has "-" as latency, address and location.
C15_LatencyOnlyOnSuccess ==
    ProbeReturned =>
        \A r \in ProbeRecords :
            /\ (r.latency # "Dash") <=> (BaseStatus(r.status) = <<"Success">>)
            /\ BaseStatus(r.status) = <<"Success">> =>
                  r.latency \in {Format2f(x) : x \in ElapsedValues}
            /\ BaseStatus(r.status) # <<"Success">> =>
                  /\ r.latency = "Dash"
                  /\ r.ip = "Dash"
                  /\ r.country = "Dash" /\ r.city = "Dash" /\ r.org = "Dash"

\* An attempt measured its latency and then failed at the location request;
\* a later attempt succeeded on a script whose first attempt failed.
C15_Witness ==
    /\ ProbeReturned
    /\ \E k \in 1..Len(Attempts) :
          /\ NetAt(probe.script, k).primary = "200"
          /\ NetAt(probe.script, k).geo \in Exceptions
          /\ Attempts[k][1].latency = "Dash"
    /\ BaseStatus(probe.ret.value.status) = <<"Success">>
    /\ probe.ret.value.latency # "Dash"

\* The five outcomes: Success, Timeout, ProxyError, RequestError{kind} and
\* UnknownError{kind}, as the statuses that stand for them.
AttemptOutcomes ==
    {<<"Success">>, <<"Timeout">>, <<"ProxyError">>}
    \cup {<<"Failed: " \o e>> : e \in Exceptions}
    \cup {<<"Error: " \o e>> : e \in Exceptions}

\* The exceptions raised during attempt k of the call: by the request through
\* the listener, or by the location request when that one was made.
RaisedIn(k) ==
    LET net == NetAt(probe.script, k) IN
    IF net.primary \in Exceptions THEN {net.primary}
    ELSE IF net.primary = "200" /\ net.geo \in Exceptions THEN {net.geo}
    ELSE {}

\* A timeout is reported as Timeout also when it is a connection error, and
\* a proxy error as ProxyError, not as a request failure of that kind.
PriorityKept(k) ==
    \A e \in RaisedIn(k) :
        /\ "Timeout" \in IsA(e) => Attempts[k][1].status = <<"Timeout">>
        /\ ("ProxyError" \in IsA(e) /\ "Timeout" \notin IsA(e)) =>
              Attempts[k][1].status = <<"ProxyError">>

C17_DelayBetweenAttempts ==
    ProbeReturned =>
        LET events == probe.ret.events
            k == Len(Attempts)
        IN /\ Len(events) = 2 * k - 1
           /\ \A j \in 1..Len(events) :
                 events[j] = IF j % 2 = 1 THEN "attempt" ELSE "sleep"
           /\ probe.ret.delays = k - 1
           /\ \A j \in 1..(k - 1) : ~Attempts[j][2]

\* A call that used every attempt and slept twice.
C17_Witness ==
    /\ ProbeReturned
    /\ Len(Attempts) = MAX_RETRIES
    /\ AllAttemptsFailed
    /\ probe.ret.delays = MAX_RETRIES - 1
    /\ probe.ret.events[2] = "sleep"

\* A completed run on one worker thread, followed on the clock, in which
\* every target failed at each of its MAX_RETRIES attempts.
SerialAllFailed ==
    /\ timed
    /\ threads = 1
    /\ pc = "done"
    /\ \A i \in Tasks :
          /\ task[i].state = "finished"
          /\ task[i].outcome.calls = MAX_RETRIES
          /\ BaseStatus(task[i].outcome.value.status) # <<"Success">>

\* C18 as claimed: with one worker and N targets that fail every attempt the
\* run takes at least N * MAX_RETRIES * RETRY_DELAY on the clock.
C18_SerialLowerBoundMaxAttempts ==
    SerialAllFailed => clock >= Len(proxies) * MAX_RETRIES * RETRY_DELAY

\* C18 as amended: it takes at least N * (MAX_RETRIES - 1) * RETRY_DELAY, a
\* call of MAX_RETRIES attempts sleeping MAX_RETRIES - 1 times.
C18_SerialLowerBound ==
    SerialAllFailed => clock >= Len(proxies) * (MAX_RETRIES - 1) * RETRY_DELAY

\* Two or more targets, and the bound is met exactly.
C18_Witness ==
    /\ SerialAllFailed
    /\ Len(proxies) >= 2
    /\ clock = Len(proxies) * (MAX_RETRIES - 1) * RETRY_DELAY

\* C19: the calls share nothing that changes. A step either leaves results
\* alone or appends to it the value of the one future main's loop takes, so
\* no interleaving loses or overwrites an appended result; the step of a
\* worker thread changes one call and not results; no step changes the list
\* of targets once the calls are submitted, nor a call that has ended.
C19_NoSharedMutableState ==
    [][/\ \/ results' = results
          \/ \E i \in Tasks :
                /\ i \notin yielded
                /\ yielded' = yielded \cup {i}
                /\ task[i].state = "finished"
                /\ task' = task
                /\ results' = Append(results, task[i].outcome.value)
       /\ pc = "collect" =>
             /\ proxies' = proxies
             /\ listeners' = listeners
             /\ DOMAIN task' = DOMAIN task
             /\ Cardinality({i \in Tasks : task'[i] # task[i]}) <= 1
             /\ task' # task => results' = results
             /\ \A i \in Tasks :
                   task[i].state \in {"finished", "raised"} => task'[i] = task[i]
      ]_vars

\* Main has appended a result while a call runs on a worker thread.
C19_Witness ==
    /\ pc = "collect"
    /\ Len(results) >= 1
    /\ Running # {}

\* C20: in every state each submitted call has at most one entry in results,
\* so results never holds more entries than there are targets, and when the
\* run has ended it holds one per target whose call did not raise.
C20_AtMostOneResultPerTask ==
    /\ Len(results) <= Len(proxies)
    /\ \A i \in Tasks :
          Cardinality({k \in 1..Len(results) :
                          results[k].name = proxies[i].name}) <= 1
    /\ pc \in {"done", "exit1"} =>
          Len(results) = Len(proxies)
                         - Cardinality({i \in Tasks : task[i].state = "raised"})

\* A run has ended with fewer results than targets, one call having raised.
C20_Witness ==
    /\ pc = "done"
    /\ Len(proxies) >= 2
    /\ Len(results) = Len(proxies) - 1
    /\ Cardinality({i \in Tasks : task[i].state = "raised"}) = 1

=============================================================================
